---- MODULE Spec2Model ----
(***************************************************************************)
(* Festival registration portal: the registry (MemStorage and              *)
(* DatabaseStorage), the code generator and the two-phase registration     *)
(* workflow of server/storage.ts and the route handlers that follow it.    *)
(*                                                                         *)
(* Every `await` of a route handler is a point where another request may   *)
(* run, so a handler is a sequence of steps, one per storage call.  Under  *)
(* Spec a single request slot is used (requests run to completion one at a *)
(* time); under SpecConc two slots interleave at the await points.         *)
(***************************************************************************)
EXTENDS Integers, Sequences, FiniteSets, TLC

(***************************************************************************)
(* Bounds of the model.                                                    *)
(***************************************************************************)
MaxParticipants == 2
MaxRegId == 3

\* the request slots: slot 1 alone is the one-at-a-time server
Procs == {1, 2}
SeqProcs == {1}

(***************************************************************************)
(* Seed data.                                                              *)
(***************************************************************************)
Teams ==
  << [id |-> 1, name |-> "QUDS Team", code |-> "QU"],
     [id |-> 2, name |-> "BADR Team", code |-> "BA"],
     [id |-> 3, name |-> "NOOR Team", code |-> "NO"],
     [id |-> 4, name |-> "FAJR Team", code |-> "FA"] >>

Programs ==
  << [id |-> 1,  name |-> "Group Dance Competition",     type |-> "stage",     participationType |-> "group"],
     [id |-> 2,  name |-> "Group Drama Performance",     type |-> "stage",     participationType |-> "group"],
     [id |-> 3,  name |-> "Group Musical Performance",   type |-> "stage",     participationType |-> "group"],
     [id |-> 4,  name |-> "Group Poetry Recitation",     type |-> "stage",     participationType |-> "group"],
     [id |-> 5,  name |-> "Solo Dance Performance",      type |-> "stage",     participationType |-> "individual"],
     [id |-> 6,  name |-> "Solo Singing",                type |-> "stage",     participationType |-> "individual"],
     [id |-> 7,  name |-> "Monologue Performance",       type |-> "stage",     participationType |-> "individual"],
     [id |-> 8,  name |-> "Stand-up Comedy",             type |-> "stage",     participationType |-> "individual"],
     [id |-> 9,  name |-> "Group Art Exhibition",        type |-> "non-stage", participationType |-> "group"],
     [id |-> 10, name |-> "Group Photography Contest",   type |-> "non-stage", participationType |-> "group"],
     [id |-> 11, name |-> "Individual Painting",         type |-> "non-stage", participationType |-> "individual"],
     [id |-> 12, name |-> "Individual Photography",      type |-> "non-stage", participationType |-> "individual"],
     [id |-> 13, name |-> "Individual Calligraphy",      type |-> "non-stage", participationType |-> "individual"],
     [id |-> 14, name |-> "Individual Creative Writing", type |-> "non-stage", participationType |-> "individual"] >>

(***************************************************************************)
(* Values standing for JavaScript's null / undefined.                      *)
(***************************************************************************)
NullImage == "<null>"
AbsentImage == "<undefined>"
NoTeam == [id |-> 0, name |-> "", code |-> ""]
NoProgram == [id |-> 0, name |-> "", type |-> "", participationType |-> ""]
NoParticipant ==
  [id |-> 0, fullName |-> <<>>, teamId |-> 0, uniqueCode |-> "", profileImage |-> NullImage]
NoParticipantWithTeam ==
  [id |-> 0, fullName |-> <<>>, teamId |-> 0, uniqueCode |-> "", profileImage |-> NullImage,
   team |-> NoTeam]

(***************************************************************************)
(* Sequence helpers.                                                       *)
(***************************************************************************)
Range(s) == {s[i] : i \in 1..Len(s)}

\* what Array.prototype.find returns given the elements that pass its test
First(hits, none) == IF hits = <<>> THEN none ELSE Head(hits)

(***************************************************************************)
(* Strings.  A fullName is a sequence of one-character strings so that     *)
(* toLowerCase really converts; a code is a string built by concatenation. *)
(***************************************************************************)
LowerChar(c) ==
  CASE c = "A" -> "a"
    [] c = "K" -> "k"
    [] c = "S" -> "s"
    [] OTHER -> c

toLowerCase(s) == [i \in 1..Len(s) |-> LowerChar(s[i])]

DigitChar(d) == <<"0", "1", "2", "3", "4", "5", "6", "7", "8", "9">>[d + 1]

\* String(counter): the decimal form of a non-negative integer
RECURSIVE String(_)
String(n) == IF n < 10 THEN DigitChar(n) ELSE String(n \div 10) \o DigitChar(n % 10)

\* padStart that pads once instead of up to the target length
padStartOnce(s, targetLength, fill) ==
  IF Len(s) >= targetLength THEN s ELSE fill \o s

\* String.prototype.padStart with a one-character fill
RECURSIVE padStart(_, _, _)
padStart(s, targetLength, fill) ==
  IF Len(s) >= targetLength THEN s ELSE padStart(fill \o s, targetLength, fill)

(***************************************************************************)
(* State.                                                                  *)
(***************************************************************************)
VARIABLES
  backend,                \* which IStorage backs `storage`: "mem" or "db"
  participants,           \* the participants collection, in insertion order
  registrations,          \* the registrations collection, in insertion order
  currentParticipantId,   \* next participant id (counter / serial)
  currentRegistrationId,  \* next registration id (counter / serial)
  clock,                  \* what new Date() returns; it advances with every row written
  pc,                     \* per request slot: the await the handler is at
  req,                    \* per request slot: the request being served
  loc,                    \* per request slot: the handler's local variables
  resp,                   \* per request slot: the response sent
  pre                     \* per request slot: the collections when the request arrived

vars == <<backend, participants, registrations, currentParticipantId,
          currentRegistrationId, clock, pc, req, loc, resp, pre>>

store == <<participants, registrations, currentParticipantId, currentRegistrationId>>

NoReq ==
  [op |-> "none", fullName |-> <<>>, teamId |-> 0, uniqueCode |-> "",
   programIds |-> <<>>, profileImage |-> AbsentImage, id |-> 0]

NoLoc ==
  [participantId |-> 0, teamCode |-> "", uniqueCode |-> "",
   existingProgramIds |-> <<>>, idx |-> 1, newRegistrations |-> <<>>]

NoResp ==
  [status |-> 0, error |-> "none", participant |-> NoParticipantWithTeam,
   uniqueCode |-> "", registrations |-> <<>>, newRegistrations |-> 0]

NoPre == [participants |-> <<>>, registrations |-> <<>>]

(***************************************************************************)
(* Registry reads.                                                         *)
(***************************************************************************)
getTeam(id) ==
  LET match(t) == t.id = id IN First(SelectSeq(Teams, match), NoTeam)

getProgram(id) ==
  LET match(g) == g.id = id IN First(SelectSeq(Programs, match), NoProgram)

getParticipant(parts, id) ==
  LET match(x) == x.id = id IN First(SelectSeq(parts, match), NoParticipant)

\* the lookup without its filter on unique_code
getParticipantByCodeAnyRow(parts, code) ==
  IF parts = <<>> THEN NoParticipant ELSE Head(parts)

getParticipantByCode(parts, code) ==
  LET match(x) == x.uniqueCode = code IN First(SelectSeq(parts, match), NoParticipant)

\* MemStorage compares lower-cased names, DatabaseStorage compares with eq()
getParticipantByName(b, parts, name) ==
  LET matchMem(x) == toLowerCase(x.fullName) = toLowerCase(name)
      matchDb(x) == x.fullName = name
  IN IF b = "mem" THEN First(SelectSeq(parts, matchMem), NoParticipant)
     ELSE First(SelectSeq(parts, matchDb), NoParticipant)

\* the join looking the team up by the participant's own id
getParticipantWithTeamWrongKey(parts, id) ==
  LET participant == getParticipant(parts, id)
      team == getTeam(participant.id)
  IN IF participant = NoParticipant \/ team = NoTeam THEN NoParticipantWithTeam
     ELSE [id |-> participant.id, fullName |-> participant.fullName,
           teamId |-> participant.teamId, uniqueCode |-> participant.uniqueCode,
           profileImage |-> participant.profileImage, team |-> team]

getParticipantWithTeam(parts, id) ==
  LET participant == getParticipant(parts, id)
      team == getTeam(participant.teamId)
  IN IF participant = NoParticipant \/ team = NoTeam THEN NoParticipantWithTeam
     ELSE [id |-> participant.id, fullName |-> participant.fullName,
           teamId |-> participant.teamId, uniqueCode |-> participant.uniqueCode,
           profileImage |-> participant.profileImage, team |-> team]

\* the filter comparing the wrong column
getRegistrationsByParticipantWrongKey(regs, participantId) ==
  LET match(r) == r.id = participantId IN SelectSeq(regs, match)

getRegistrationsByParticipant(regs, participantId) ==
  LET match(r) == r.participantId = participantId IN SelectSeq(regs, match)

WithDetails(parts, r) ==
  [id |-> r.id, participantId |-> r.participantId, programId |-> r.programId,
   registeredAt |-> r.registeredAt,
   participant |-> getParticipantWithTeam(parts, r.participantId),
   program |-> getProgram(r.programId)]

\* the same join over every row
getRegistrationsWithDetails(b, parts, regs) ==
  LET resolved(r) == /\ getParticipantWithTeam(parts, r.participantId) # NoParticipantWithTeam
                     /\ getProgram(r.programId) # NoProgram
      kept == IF b = "mem" THEN SelectSeq(regs, resolved) ELSE regs
  IN [i \in 1..Len(kept) |-> WithDetails(parts, kept[i])]

\* the join pushing every row, resolved or not
getRegistrationsByParticipantWithDetailsKeepAll(b, parts, regs, participantId) ==
  LET rows == getRegistrationsByParticipant(regs, participantId)
  IN [i \in 1..Len(rows) |-> WithDetails(parts, rows[i])]

\* MemStorage drops a row whose participant, team or program is missing;
\* DatabaseStorage left-joins and keeps every row
getRegistrationsByParticipantWithDetails(b, parts, regs, participantId) ==
  LET rows == getRegistrationsByParticipant(regs, participantId)
      resolved(r) == /\ getParticipantWithTeam(parts, r.participantId) # NoParticipantWithTeam
                     /\ getProgram(r.programId) # NoProgram
      kept == IF b = "mem" THEN SelectSeq(rows, resolved) ELSE rows
  IN [i \in 1..Len(kept) |-> WithDetails(parts, kept[i])]

(***************************************************************************)
(* Statistics.                                                             *)
(***************************************************************************)
getStats(b, parts, regs) ==
  LET allRegistrations == getRegistrationsWithDetails(b, parts, regs)
      uniqueParticipants == {allRegistrations[i].participantId : i \in 1..Len(allRegistrations)}
      stage(r) == r.program.type = "stage"
      nonStage(r) == r.program.type = "non-stage"
  IN [totalRegistered |-> Cardinality(uniqueParticipants),
      stagePrograms |-> Len(SelectSeq(allRegistrations, stage)),
      nonStagePrograms |-> Len(SelectSeq(allRegistrations, nonStage)),
      totalPrograms |-> Len(allRegistrations)]

(***************************************************************************)
(* Code generator.                                                         *)
(***************************************************************************)
\* the generator without its retry loop
generateLoopNoRetry(teamCode, existingCodes, counter) ==
  teamCode \o padStart(String(counter), 3, "0")

\* the do-while loop: candidates are tried in order from `counter` on and the
\* first one that existingCodes does not include is returned (among
\* Len(existingCodes) + 1 candidates one is free, so the loop ends there at
\* the latest)
generateLoop(teamCode, existingCodes, counter) ==
  LET taken == Range(existingCodes)
      candidate(k) == teamCode \o padStart(String(k), 3, "0")
      last == CHOOSE k \in counter..(counter + Len(existingCodes)) :
                /\ candidate(k) \notin taken
                /\ \A j \in counter..(k - 1) : candidate(j) \in taken
  IN candidate(last)

\* the generator counting from the number of participants of all teams
generateUniqueCodeGlobalCounter(parts, teamCode) ==
  LET existingCodes == [i \in 1..Len(parts) |-> parts[i].uniqueCode]
  IN generateLoop(teamCode, existingCodes, Len(parts) + 1)

generateUniqueCode(parts, teamCode) ==
  LET existingCodes == [i \in 1..Len(parts) |-> parts[i].uniqueCode]
  IN generateLoop(teamCode, existingCodes, 1)

(***************************************************************************)
(* Request validation (zod schemas).                                       *)
(***************************************************************************)

\* the schema with min(1) on fullName
firstRegistrationSchemaMin1(body) ==
  /\ Len(body.fullName) >= 1
  /\ Len(body.fullName) <= 100
  /\ body.teamId >= 1

firstRegistrationSchema(body) ==
  /\ Len(body.fullName) >= 2
  /\ Len(body.fullName) <= 100
  /\ body.teamId >= 1

\* the schema asking for more than 5 characters
secondRegistrationSchemaMin6(body) ==
  /\ Len(body.uniqueCode) > 5
  /\ Len(body.programIds) >= 1

secondRegistrationSchema(body) ==
  /\ Len(body.uniqueCode) >= 5
  /\ Len(body.programIds) >= 1

(***************************************************************************)
(* Request inputs.  The one-at-a-time server is driven with the wide sets, *)
(* the interleaved server with the narrow ones.                            *)
(***************************************************************************)
AliKhan == <<"A", "l", "i", " ", "K", "h", "a", "n">>
aliKhan == <<"a", "l", "i", " ", "k", "h", "a", "n">>
Sara == <<"S", "a", "r", "a">>
LongName == [i \in 1..101 |-> "x"]

\* the request bodies and parameters a client sends
Inputs ==
  [firsts |-> ({AliKhan, aliKhan, Sara} \X {1, 2, 9}) \cup {<< <<"A">>, 1 >>, <<Sara, 0>>, <<LongName, 1>>},
   codes |-> {"QU001"},
   seconds |-> ({"QU001"} \X {<<1, 2>>, <<2, 9>>, <<1, 1>>, <<1, 99>>}
                  \X {AbsentImage, "/uploads/a"})
               \cup ({"BA001"} \X {<<1, 2>>} \X {AbsentImage, "/uploads/a"})
               \cup {<<"QU1", <<1, 2>>, "/uploads/a">>, <<"QU001", <<1>>, "">>,
                     <<"QU001", <<>>, AbsentImage>>},
   registrationIds |-> {1, 2}]

InputsConc ==
  [firsts |-> {AliKhan, Sara} \X {1},
   codes |-> {"QU001"},
   seconds |-> {<<"QU001", <<2>>, "/uploads/a">>},
   registrationIds |-> {1}]

(***************************************************************************)
(* Handler plumbing.                                                       *)
(***************************************************************************)
Respond(p, r) ==
  /\ resp' = [resp EXCEPT ![p] = r]
  /\ pc' = [pc EXCEPT ![p] = "done"]

Goto(p, label) ==
  /\ pc' = [pc EXCEPT ![p] = label]
  /\ UNCHANGED resp

\* a request arrives at a free slot; the handler runs up to its first await
Receive(p, body) ==
  /\ pc[p] = "idle"
  /\ req' = [req EXCEPT ![p] = body]
  /\ pre' = [pre EXCEPT ![p] =
               [participants |-> participants, registrations |-> registrations]]

ErrorResponse(status, error) == [NoResp EXCEPT !.status = status, !.error = error]

\* participants that requests already in flight may still create
FirstInFlight(p) ==
  Cardinality({q \in Procs \ {p} : pc[q] \in {"f_team", "f_generate", "f_create"}})

\* how many rows a request for these programs would write for this participant now
RowsToWrite(participantId, programIds, from) ==
  LET held == {r.programId : r \in {x \in Range(registrations) : x.participantId = participantId}}
  IN Cardinality({i \in from..Len(programIds) : programIds[i] \notin held})

\* registration rows that a request already in flight may still create
SecondPending(q) ==
  IF pc[q] \in {"s_image", "s_existing"}
  THEN RowsToWrite(loc[q].participantId, req[q].programIds, 1)
  ELSE IF pc[q] = "s_create"
  THEN Cardinality({i \in loc[q].idx..Len(req[q].programIds) :
                      req[q].programIds[i] \notin Range(loc[q].existingProgramIds)})
  ELSE 0

RECURSIVE SecondInFlight(_)
SecondInFlight(S) ==
  IF S = {} THEN 0
  ELSE LET q == CHOOSE x \in S : TRUE IN SecondPending(q) + SecondInFlight(S \ {q})

\* the model stops accepting requests that would take an id beyond the bounds
RoomForParticipant(p) == currentParticipantId + FirstInFlight(p) <= MaxParticipants

RoomForRegistrations(p, participantId, programIds) ==
  currentRegistrationId - 1 + SecondInFlight(Procs \ {p})
    + RowsToWrite(participantId, programIds, 1) <= MaxRegId

(***************************************************************************)
(* POST /api/register/first                                                *)
(***************************************************************************)
IssueCode(p, fullName, teamId) ==
  LET body == [NoReq EXCEPT !.op = "first", !.fullName = fullName, !.teamId = teamId]
      existingParticipant == getParticipantByName(backend, participants, fullName)
  IN
  /\ Receive(p, body)
  /\ RoomForParticipant(p)
  /\ IF ~firstRegistrationSchema(body)
     THEN Respond(p, ErrorResponse(400, "ValidationError"))
     ELSE IF existingParticipant # NoParticipant
     THEN Respond(p, ErrorResponse(400, "DuplicateName"))
     ELSE Goto(p, "f_team")
  /\ UNCHANGED <<backend, store, clock, loc>>

\* the handler without its `if (!team)` test
FirstGetTeamNoCheck(p) ==
  /\ pc[p] = "f_team"
  /\ LET team == getTeam(req[p].teamId) IN
     /\ Goto(p, "f_generate")
     /\ loc' = [loc EXCEPT ![p].teamCode = team.code]
  /\ UNCHANGED <<backend, store, clock, req, pre>>

FirstGetTeam(p) ==
  /\ pc[p] = "f_team"
  /\ LET team == getTeam(req[p].teamId) IN
     IF team = NoTeam
     THEN /\ Respond(p, ErrorResponse(400, "InvalidTeam"))
          /\ UNCHANGED loc
     ELSE /\ Goto(p, "f_generate")
          /\ loc' = [loc EXCEPT ![p].teamCode = team.code]
  /\ UNCHANGED <<backend, store, clock, req, pre>>

FirstGenerate(p) ==
  /\ pc[p] = "f_generate"
  /\ loc' = [loc EXCEPT ![p].uniqueCode = generateUniqueCode(participants, loc[p].teamCode)]
  /\ Goto(p, "f_create")
  /\ UNCHANGED <<backend, store, clock, req, pre>>

\* DatabaseStorage: unique_code is UNIQUE, the insert of a taken code throws
\* (the serial id is consumed all the same); MemStorage just sets the map entry
createParticipantRejected(b, parts, participant) ==
  /\ b = "db"
  /\ \E x \in Range(parts) : x.uniqueCode = participant.uniqueCode

FirstCreate(p) ==
  /\ pc[p] = "f_create"
  /\ LET participant ==
           [id |-> currentParticipantId, fullName |-> req[p].fullName,
            teamId |-> req[p].teamId, uniqueCode |-> loc[p].uniqueCode,
            profileImage |-> NullImage]
     IN IF createParticipantRejected(backend, participants, participant)
        THEN /\ Respond(p, ErrorResponse(400, "PersistenceConflict"))
             /\ UNCHANGED <<participants, loc>>
        ELSE /\ participants' = Append(participants, participant)
             /\ loc' = [loc EXCEPT ![p].participantId = participant.id]
             /\ Goto(p, "f_join")
  /\ currentParticipantId' = currentParticipantId + 1
  /\ UNCHANGED <<backend, registrations, currentRegistrationId, clock, req, pre>>

FirstRespond(p) ==
  /\ pc[p] = "f_join"
  /\ LET participantWithTeam == getParticipantWithTeam(participants, loc[p].participantId) IN
     Respond(p, [NoResp EXCEPT !.status = 200, !.error = "ok",
                               !.participant = participantWithTeam,
                               !.uniqueCode = loc[p].uniqueCode])
  /\ UNCHANGED <<backend, store, clock, req, loc, pre>>

(***************************************************************************)
(* GET /api/participant/:code                                              *)
(***************************************************************************)
LookupByCode(p, code) ==
  LET participant == getParticipantByCode(participants, code) IN
  /\ Receive(p, [NoReq EXCEPT !.op = "lookup", !.uniqueCode = code])
  /\ IF participant = NoParticipant
     THEN /\ Respond(p, ErrorResponse(404, "InvalidCode"))
          /\ UNCHANGED loc
     ELSE /\ Goto(p, "l_join")
          /\ loc' = [loc EXCEPT ![p].participantId = participant.id]
  /\ UNCHANGED <<backend, store, clock>>

LookupJoin(p) ==
  /\ pc[p] = "l_join"
  /\ resp' = [resp EXCEPT ![p].participant =
                getParticipantWithTeam(participants, loc[p].participantId)]
  /\ pc' = [pc EXCEPT ![p] = "l_regs"]
  /\ UNCHANGED <<backend, store, clock, req, loc, pre>>

LookupRespond(p) ==
  /\ pc[p] = "l_regs"
  /\ Respond(p, [resp[p] EXCEPT !.status = 200, !.error = "ok",
                   !.registrations = getRegistrationsByParticipantWithDetails(
                       backend, participants, registrations, loc[p].participantId)])
  /\ UNCHANGED <<backend, store, clock, req, loc, pre>>

(***************************************************************************)
(* POST /api/register/second                                               *)
(***************************************************************************)

\* the test as `!== undefined`
ImageProvidedNotUndefined(profileImage) == profileImage # AbsentImage

\* `if (validatedData.profileImage)`: undefined and "" are falsy
ImageProvided(profileImage) == profileImage # AbsentImage /\ profileImage # ""

RegisterPrograms(p, uniqueCode, programIds, profileImage) ==
  LET body == [NoReq EXCEPT !.op = "second", !.uniqueCode = uniqueCode,
                            !.programIds = programIds, !.profileImage = profileImage]
      participant == getParticipantByCode(participants, uniqueCode)
  IN
  /\ Receive(p, body)
  /\ RoomForRegistrations(p, participant.id, programIds)
  /\ IF ~secondRegistrationSchema(body)
     THEN /\ Respond(p, ErrorResponse(400, "ValidationError"))
          /\ UNCHANGED loc
     ELSE IF participant = NoParticipant
     THEN /\ Respond(p, ErrorResponse(404, "InvalidCode"))
          /\ UNCHANGED loc
     ELSE /\ Goto(p, IF ImageProvided(profileImage) THEN "s_image" ELSE "s_existing")
          /\ loc' = [loc EXCEPT ![p].participantId = participant.id]
  /\ UNCHANGED <<backend, store, clock>>

\* the update without its where clause
updateParticipantImageEveryRow(parts, id, imageUrl) ==
  [i \in 1..Len(parts) |-> [parts[i] EXCEPT !.profileImage = imageUrl]]

updateParticipantImage(parts, id, imageUrl) ==
  [i \in 1..Len(parts) |->
     IF parts[i].id = id THEN [parts[i] EXCEPT !.profileImage = imageUrl] ELSE parts[i]]

SecondUpdateImage(p) ==
  /\ pc[p] = "s_image"
  /\ participants' = updateParticipantImage(participants, loc[p].participantId,
                                            req[p].profileImage)
  /\ Goto(p, "s_existing")
  /\ UNCHANGED <<backend, registrations, currentParticipantId, currentRegistrationId,
                 clock, req, loc, pre>>

\* the for loop without the includes() test
NextToCreateNoFilter(programIds, existingProgramIds, from) ==
  IF from > Len(programIds) THEN Len(programIds) + 1 ELSE from

\* the for loop: index of the next requested id that passes
\* !existingProgramIds.includes(programId), or Len + 1 when the loop is over
NextToCreate(programIds, existingProgramIds, from) ==
  LET todo == {i \in from..Len(programIds) : programIds[i] \notin Range(existingProgramIds)}
  IN IF todo = {} THEN Len(programIds) + 1
     ELSE CHOOSE i \in todo : \A j \in todo : i <= j

\* the handler returning without an answer when nothing is left to create
SecondGetExistingNoAnswer(p) ==
  /\ pc[p] = "s_existing"
  /\ LET existingRegistrations ==
           getRegistrationsByParticipant(registrations, loc[p].participantId)
         existingProgramIds ==
           [i \in 1..Len(existingRegistrations) |-> existingRegistrations[i].programId]
         first == NextToCreate(req[p].programIds, existingProgramIds, 1)
     IN /\ loc' = [loc EXCEPT ![p].existingProgramIds = existingProgramIds,
                              ![p].idx = first]
        /\ Goto(p, IF first > Len(req[p].programIds) THEN "s_returned" ELSE "s_create")
  /\ UNCHANGED <<backend, store, clock, req, pre>>

SecondGetExisting(p) ==
  /\ pc[p] = "s_existing"
  /\ LET existingRegistrations ==
           getRegistrationsByParticipant(registrations, loc[p].participantId)
         existingProgramIds ==
           [i \in 1..Len(existingRegistrations) |-> existingRegistrations[i].programId]
         first == NextToCreate(req[p].programIds, existingProgramIds, 1)
     IN /\ loc' = [loc EXCEPT ![p].existingProgramIds = existingProgramIds,
                              ![p].idx = first]
        /\ Goto(p, IF first > Len(req[p].programIds) THEN "s_details" ELSE "s_create")
  /\ UNCHANGED <<backend, store, clock, req, pre>>

\* DatabaseStorage: program_id REFERENCES programs, the insert of an unknown
\* program throws (the serial id is consumed all the same); MemStorage stores it
createRegistrationRejected(b, registration) ==
  /\ b = "db"
  /\ getProgram(registration.programId) = NoProgram

\* the insert turned into an upsert that refreshes registered_at
SecondCreateUpsert(p) ==
  /\ pc[p] = "s_create"
  /\ LET registration ==
           [id |-> currentRegistrationId, participantId |-> loc[p].participantId,
            programId |-> req[p].programIds[loc[p].idx], registeredAt |-> clock]
         next == NextToCreate(req[p].programIds, loc[p].existingProgramIds, loc[p].idx + 1)
         same(r) == /\ r.participantId = registration.participantId
                    /\ r.programId = registration.programId
     IN IF createRegistrationRejected(backend, registration)
        THEN /\ Respond(p, ErrorResponse(400, "ForeignKeyViolation"))
             /\ UNCHANGED <<registrations, loc>>
        ELSE /\ registrations' =
                  IF \E r \in Range(registrations) : same(r)
                  THEN [i \in 1..Len(registrations) |->
                          IF same(registrations[i])
                          THEN [registrations[i] EXCEPT !.registeredAt = clock]
                          ELSE registrations[i]]
                  ELSE Append(registrations, registration)
             /\ loc' = [loc EXCEPT
                          ![p].newRegistrations = Append(loc[p].newRegistrations, registration),
                          ![p].idx = next]
             /\ Goto(p, IF next > Len(req[p].programIds) THEN "s_details" ELSE "s_create")
  /\ currentRegistrationId' = currentRegistrationId + 1
  /\ clock' = clock + 1
  /\ UNCHANGED <<backend, participants, currentParticipantId, req, pre>>

SecondCreate(p) ==
  /\ pc[p] = "s_create"
  /\ LET registration ==
           [id |-> currentRegistrationId, participantId |-> loc[p].participantId,
            programId |-> req[p].programIds[loc[p].idx], registeredAt |-> clock]
         next == NextToCreate(req[p].programIds, loc[p].existingProgramIds, loc[p].idx + 1)
     IN IF createRegistrationRejected(backend, registration)
        THEN /\ Respond(p, ErrorResponse(400, "ForeignKeyViolation"))
             /\ UNCHANGED <<registrations, loc>>
        ELSE /\ registrations' = Append(registrations, registration)
             /\ loc' = [loc EXCEPT
                          ![p].newRegistrations = Append(loc[p].newRegistrations, registration),
                          ![p].idx = next]
             /\ Goto(p, IF next > Len(req[p].programIds) THEN "s_details" ELSE "s_create")
  /\ currentRegistrationId' = currentRegistrationId + 1
  /\ clock' = clock + 1
  /\ UNCHANGED <<backend, participants, currentParticipantId, req, pre>>

SecondRespond(p) ==
  /\ pc[p] = "s_details"
  /\ LET allRegistrations == getRegistrationsByParticipantWithDetails(
           backend, participants, registrations, loc[p].participantId)
     IN Respond(p, [NoResp EXCEPT !.status = 200, !.error = "ok",
                                  !.registrations = allRegistrations,
                                  !.newRegistrations = Len(loc[p].newRegistrations)])
  /\ UNCHANGED <<backend, store, clock, req, loc, pre>>

(***************************************************************************)
(* DELETE /api/registration/:id                                            *)
(***************************************************************************)

\* the delete comparing the wrong column
deleteRegistrationWrongKey(regs, id) ==
  LET others(r) == r.participantId # id IN SelectSeq(regs, others)

deleteRegistration(regs, id) ==
  LET others(r) == r.id # id IN SelectSeq(regs, others)

\* the handler taking any result of the delete for a success
DeleteRegistrationAlwaysOk(p, id) ==
  /\ Receive(p, [NoReq EXCEPT !.op = "delete", !.id = id])
  /\ registrations' = deleteRegistration(registrations, id)
  /\ Respond(p, [NoResp EXCEPT !.status = 200, !.error = "ok"])
  /\ UNCHANGED <<backend, participants, currentParticipantId, currentRegistrationId,
                 clock, loc>>

DeleteRegistration(p, id) ==
  LET success == \E r \in Range(registrations) : r.id = id IN
  /\ Receive(p, [NoReq EXCEPT !.op = "delete", !.id = id])
  /\ registrations' = deleteRegistration(registrations, id)
  /\ IF success THEN Respond(p, [NoResp EXCEPT !.status = 200, !.error = "ok"])
     ELSE Respond(p, ErrorResponse(404, "NotFound"))
  /\ UNCHANGED <<backend, participants, currentParticipantId, currentRegistrationId,
                 clock, loc>>

(***************************************************************************)
(* The response has been sent: the slot is free for the next request.      *)
(***************************************************************************)
Finish(p) ==
  /\ pc[p] = "done"
  /\ pc' = [pc EXCEPT ![p] = "idle"]
  /\ req' = [req EXCEPT ![p] = NoReq]
  /\ loc' = [loc EXCEPT ![p] = NoLoc]
  /\ resp' = [resp EXCEPT ![p] = NoResp]
  /\ pre' = [pre EXCEPT ![p] = NoPre]
  /\ UNCHANGED <<backend, store, clock>>

(***************************************************************************)
(* Specifications.                                                         *)
(***************************************************************************)
Init ==
  /\ backend \in {"mem", "db"}
  /\ participants = <<>>
  /\ registrations = <<>>
  /\ currentParticipantId = 1
  /\ currentRegistrationId = 1
  /\ clock = 0
  /\ pc = [p \in Procs |-> "idle"]
  /\ req = [p \in Procs |-> NoReq]
  /\ loc = [p \in Procs |-> NoLoc]
  /\ resp = [p \in Procs |-> NoResp]
  /\ pre = [p \in Procs |-> NoPre]

Step(p, in) ==
  \/ \E body \in in.firsts : IssueCode(p, body[1], body[2])
  \/ FirstGetTeam(p)
  \/ FirstGenerate(p)
  \/ FirstCreate(p)
  \/ FirstRespond(p)
  \/ \E code \in in.codes : LookupByCode(p, code)
  \/ LookupJoin(p)
  \/ LookupRespond(p)
  \/ \E body \in in.seconds : RegisterPrograms(p, body[1], body[2], body[3])
  \/ SecondUpdateImage(p)
  \/ SecondGetExisting(p)
  \/ SecondCreate(p)
  \/ SecondRespond(p)
  \/ \E id \in in.registrationIds : DeleteRegistration(p, id)
  \/ Finish(p)

\* requests run to completion one at a time
Next == \E p \in SeqProcs : Step(p, Inputs)

Spec == Init /\ [][Next]_vars

\* two requests in flight, interleaving at every await
NextConc == \E p \in Procs : Step(p, InputsConc)

SpecConc == Init /\ [][NextConc]_vars

(***************************************************************************)
(* The code generator on its own: any set of existing codes, any prefix.   *)
(***************************************************************************)

(***************************************************************************)
(* The one-at-a-time server with its event loop: a handler whose awaited   *)
(* storage call has resolved is eventually resumed.                        *)
(***************************************************************************)
InputsLive ==
  [firsts |-> {AliKhan, Sara} \X {1, 9},
   codes |-> {"QU001", "QU002"},
   seconds |-> {<<"QU001", <<1, 2>>, "/uploads/a">>, <<"QU001", <<1, 99>>, AbsentImage>>,
                <<"QU002", <<2, 1>>, AbsentImage>>},
   registrationIds |-> {1, 2}]

\* the steps of a handler after its first await
Resume(p) ==
  \/ FirstGetTeam(p)
  \/ FirstGenerate(p)
  \/ FirstCreate(p)
  \/ FirstRespond(p)
  \/ LookupJoin(p)
  \/ LookupRespond(p)
  \/ SecondUpdateImage(p)
  \/ SecondGetExisting(p)
  \/ SecondCreate(p)
  \/ SecondRespond(p)

NextLive == \E p \in SeqProcs : Step(p, InputsLive)

SpecLive == Init /\ [][NextLive]_vars /\ \A p \in SeqProcs : WF_vars(Resume(p))

MaxCounter == 3

GenPrefixes == {"QU", "BA"}

GenCodes == {prefix \o padStart(String(k), 3, "0") : prefix \in GenPrefixes, k \in 1..MaxCounter}

\* every code of one team from 001 to 999
Exhausted(prefix) == {prefix \o padStart(String(k), 3, "0") : k \in 1..999}

ExhaustedParticipants(prefix) ==
  [k \in 1..999 |->
     [id |-> k, fullName |-> Sara, teamId |-> 1,
      uniqueCode |-> prefix \o padStart(String(k), 3, "0"), profileImage |-> NullImage]]

RECURSIVE GenParticipants(_, _)
GenParticipants(codes, id) ==
  IF codes = {} THEN <<>>
  ELSE LET code == CHOOSE c \in codes : TRUE IN
       <<[id |-> id, fullName |-> Sara, teamId |-> 1, uniqueCode |-> code,
          profileImage |-> NullImage]>> \o GenParticipants(codes \ {code}, id + 1)

InitGen ==
  /\ backend \in {"mem", "db"}
  /\ \/ \E codes \in SUBSET GenCodes : participants = GenParticipants(codes, 1)
     \/ participants = ExhaustedParticipants("QU")
  /\ registrations = <<>>
  /\ currentParticipantId = Len(participants) + 1
  /\ currentRegistrationId = 1
  /\ clock = 0
  /\ pc = [p \in Procs |-> IF p \in SeqProcs THEN "f_generate" ELSE "idle"]
  /\ \E team \in Range(Teams) :
       /\ team.code \in GenPrefixes
       /\ req = [p \in Procs |-> IF p \in SeqProcs
                                 THEN [NoReq EXCEPT !.op = "first", !.fullName = AliKhan,
                                                    !.teamId = team.id]
                                 ELSE NoReq]
       /\ loc = [p \in Procs |-> IF p \in SeqProcs
                                 THEN [NoLoc EXCEPT !.teamCode = team.code]
                                 ELSE NoLoc]
  /\ resp = [p \in Procs |-> NoResp]
  /\ pre = [p \in Procs |-> IF p \in SeqProcs
                            THEN [participants |-> participants, registrations |-> <<>>]
                            ELSE NoPre]

NextGen == \E p \in SeqProcs : FirstGenerate(p)

SpecGen == InitGen /\ [][NextGen]_vars

(***************************************************************************)
(* Properties.                                                             *)
(***************************************************************************)
CodesHeld(parts) == {x.uniqueCode : x \in Range(parts)}

\* the program ids of the rows a participant holds, one entry per row
ProgramsHeld(regs, participantId) ==
  LET mine(r) == r.participantId = participantId
      rows == SelectSeq(regs, mine)
  IN [i \in 1..Len(rows) |-> rows[i].programId]

RowsFor(regs, participantId, programId) ==
  Cardinality({i \in 1..Len(regs) : /\ regs[i].participantId = participantId
                                    /\ regs[i].programId = programId})

\* the participant a code named when the request arrived
Presented(p) == getParticipantByCode(pre[p].participants, req[p].uniqueCode)

\* C1: with requests run one at a time, no two participants hold the same
\* uniqueCode.
C1_UniqueCodes ==
  \A i, j \in 1..Len(participants) :
    i # j => participants[i].uniqueCode # participants[j].uniqueCode

C1_Witness ==
  /\ Len(participants) >= 2
  /\ participants[1].teamId = participants[2].teamId

\* three decimal digits, or the plain decimal form from 1000 on
ZeroPadded3(k) ==
  IF k < 1000
  THEN DigitChar(k \div 100) \o DigitChar((k \div 10) % 10) \o DigitChar(k % 10)
  ELSE String(k)

\* C2: generateUniqueCode returns the prefix followed by the zero-padded
\* (at least 3 digits) smallest counter >= 1 whose candidate is free; it is
\* never an existing code; generate("QU", {}) = "QU001",
\* generate("QU", {"QU001"}) = "QU002", and with 001..999 taken it is
\* prefix + "1000".
C2_GenerateUniqueCode ==
  \A p \in SeqProcs :
    pc[p] = "f_create" =>
      LET prefix == loc[p].teamCode
          code == loc[p].uniqueCode
          existing == CodesHeld(participants)
      IN /\ code \notin existing
         /\ \E k \in 1..(Cardinality(existing) + 1) :
              /\ code = prefix \o ZeroPadded3(k)
              /\ \A j \in 1..(k - 1) : prefix \o ZeroPadded3(j) \in existing
         /\ (prefix = "QU" /\ existing = {}) => code = "QU001"
         /\ (prefix = "QU" /\ existing = {"QU001"}) => code = "QU002"
         /\ (Cardinality(existing) = 999 /\ existing = Exhausted(prefix)) =>
              code = prefix \o "1000"

C2_Witness ==
  \E p \in SeqProcs :
    /\ pc[p] = "f_create"
    /\ loc[p].uniqueCode = "QU1000"
    /\ Len(participants) = 999

\* C3: with requests run one at a time and arbitrary non-empty programIds
\* lists (repeats allowed), no participant holds two rows with the same
\* programId.
C3_NoDuplicateRows ==
  \A i, j \in 1..Len(registrations) :
    (/\ i # j
     /\ registrations[i].participantId = registrations[j].participantId)
      => registrations[i].programId # registrations[j].programId

\* C4: for a participant holding rows for A = 1 and B = 2 (the result of
\* RegisterPrograms [A, B] from nothing), RegisterPrograms [B, C] with C = 9
\* leaves exactly one row each for A, B and C and reports newRegistrations = 1.
C4_RegisterABThenBC ==
  \A p \in SeqProcs :
    (/\ pc[p] = "done"
     /\ req[p].op = "second"
     /\ req[p].programIds = <<2, 9>>
     /\ Presented(p) # NoParticipant
     /\ Len(ProgramsHeld(pre[p].registrations, Presented(p).id)) = 2
     /\ Range(ProgramsHeld(pre[p].registrations, Presented(p).id)) = {1, 2})
      => /\ resp[p].status = 200
         /\ resp[p].newRegistrations = 1
         /\ Len(ProgramsHeld(registrations, Presented(p).id)) = 3
         /\ \A g \in {1, 2, 9} : RowsFor(registrations, Presented(p).id, g) = 1

C4_Witness ==
  \E p \in SeqProcs :
    /\ pc[p] = "done"
    /\ req[p].op = "second"
    /\ req[p].programIds = <<2, 9>>
    /\ pre[p].registrations # <<>>
    /\ ProgramsHeld(pre[p].registrations, Presented(p).id) = <<1, 2>>
    /\ resp[p].newRegistrations = 1

\* every requested program was already registered when the request arrived
AllAlreadyRegistered(p) ==
  /\ req[p].op = "second"
  /\ Len(req[p].programIds) >= 1
  /\ Presented(p) # NoParticipant
  /\ Range(req[p].programIds) \subseteq
       Range(ProgramsHeld(pre[p].registrations, Presented(p).id))

\* C5: RegisterPrograms with a valid code and only already registered
\* programs creates no row, leaves registrations unchanged, reports
\* newRegistrations = 0 and succeeds; and since after any successful
\* RegisterPrograms every requested program is registered, repeating the
\* call changes nothing further.
C5_IdempotentResubmission ==
  \A p \in SeqProcs :
    /\ (pc[p] = "done" /\ AllAlreadyRegistered(p)) =>
         /\ resp[p].status = 200
         /\ resp[p].newRegistrations = 0
         /\ registrations = pre[p].registrations
    /\ (pc[p] # "idle" /\ AllAlreadyRegistered(p)) =>
         registrations = pre[p].registrations
    /\ (pc[p] = "done" /\ req[p].op = "second" /\ resp[p].status = 200) =>
         Range(req[p].programIds) \subseteq
           Range(ProgramsHeld(registrations, loc[p].participantId))

C5_Witness ==
  \E p \in SeqProcs :
    /\ pc[p] = "done"
    /\ AllAlreadyRegistered(p)
    /\ resp[p].newRegistrations = 0
    /\ resp[p].registrations # <<>>

\* C6: an IssueCode whose fullName equals, ignoring case, the fullName of a
\* participant created earlier fails with DuplicateName and creates no
\* participant, whichever storage backs the registry.
C6_DuplicateNameIgnoringCase ==
  \A p \in SeqProcs :
    (/\ pc[p] = "done"
     /\ req[p].op = "first"
     /\ firstRegistrationSchema(req[p])
     /\ \E x \in Range(pre[p].participants) :
          toLowerCase(x.fullName) = toLowerCase(req[p].fullName))
      => /\ resp[p].error = "DuplicateName"
         /\ participants = pre[p].participants

\* C7: when two IssueCode requests for one team interleave and compute the
\* same candidate, the store rejects the second writer, so no code is ever
\* held by two participants.
C7_RaceLoserRejected ==
  \A code \in CodesHeld(participants) :
    Cardinality({i \in 1..Len(participants) : participants[i].uniqueCode = code}) = 1

\* C8: an IssueCode whose insert is rejected because the code was taken
\* meanwhile is retried with a new code, so it never answers the caller with
\* the uniqueness violation.
C8_ConflictIsRetried ==
  \A p \in Procs :
    (pc[p] = "done" /\ req[p].op = "first") => resp[p].error # "PersistenceConflict"

\* C9: LookupByCode with a code nobody holds fails with InvalidCode and
\* returns no participant and no registrations; with a held code it returns
\* the holder joined with its team and exactly the holder's registration
\* rows; either way the stored state is unchanged.
C9_LookupByCode ==
  \A p \in SeqProcs :
    (pc[p] = "done" /\ req[p].op = "lookup") =>
      LET holders == {x \in Range(participants) : x.uniqueCode = req[p].uniqueCode} IN
      /\ participants = pre[p].participants
      /\ registrations = pre[p].registrations
      /\ holders = {} =>
           /\ resp[p].status = 404
           /\ resp[p].error = "InvalidCode"
           /\ resp[p].participant = NoParticipantWithTeam
           /\ resp[p].registrations = <<>>
      /\ \A x \in holders :
           /\ resp[p].status = 200
           /\ resp[p].participant.id = x.id
           /\ resp[p].participant.uniqueCode = x.uniqueCode
           /\ resp[p].participant.fullName = x.fullName
           /\ resp[p].participant.team.id = x.teamId
           /\ {r.id : r \in Range(resp[p].registrations)} =
                {r.id : r \in {y \in Range(registrations) : y.participantId = x.id}}

\* C10 as claimed: RegisterPrograms with a non-empty programIds list and a
\* uniqueCode nobody holds fails with InvalidCode and leaves participants
\* and registrations unchanged.
C10_UnknownCodeIsInvalidCode ==
  \A p \in SeqProcs :
    (/\ pc[p] = "done"
     /\ req[p].op = "second"
     /\ Len(req[p].programIds) >= 1
     /\ req[p].uniqueCode \notin CodesHeld(pre[p].participants))
      => /\ resp[p].status = 404
         /\ resp[p].error = "InvalidCode"
         /\ participants = pre[p].participants
         /\ registrations = pre[p].registrations

\* C10 amended: RegisterPrograms with a non-empty programIds list and a
\* uniqueCode of at least 5 characters that nobody holds fails with
\* InvalidCode; with a shorter one it fails with a validation error; in both
\* cases participants (every profileImage included) and registrations are
\* unchanged, also when a profileImage is supplied.
C10_UnknownCodeRejected ==
  \A p \in SeqProcs :
    (/\ pc[p] = "done"
     /\ req[p].op = "second"
     /\ Len(req[p].programIds) >= 1
     /\ req[p].uniqueCode \notin CodesHeld(pre[p].participants))
      => /\ IF Len(req[p].uniqueCode) >= 5
            THEN resp[p].status = 404 /\ resp[p].error = "InvalidCode"
            ELSE resp[p].status = 400 /\ resp[p].error = "ValidationError"
         /\ participants = pre[p].participants
         /\ registrations = pre[p].registrations

C10_Witness ==
  \E p \in SeqProcs :
    /\ pc[p] = "done"
    /\ req[p].op = "second"
    /\ req[p].programIds = <<1, 2>>
    /\ req[p].uniqueCode = "BA001"
    /\ req[p].profileImage = "/uploads/a"
    /\ participants # <<>>
    /\ "BA001" \notin CodesHeld(participants)
    /\ resp[p].error = "InvalidCode"

\* the name is free when the request arrives, whatever its letter case
NameUnused(p) ==
  \A x \in Range(pre[p].participants) :
    toLowerCase(x.fullName) # toLowerCase(req[p].fullName)

\* C11: IssueCode with a well-formed fullName that no participant uses and a
\* teamId that names no team fails with InvalidTeam; no code is generated,
\* no participant is created and participants is unchanged.
C11_InvalidTeam ==
  \A p \in SeqProcs :
    (/\ pc[p] = "done"
     /\ req[p].op = "first"
     /\ firstRegistrationSchema(req[p])
     /\ NameUnused(p)
     /\ \A i \in 1..Len(Teams) : Teams[i].id # req[p].teamId)
      => /\ resp[p].status = 400
         /\ resp[p].error = "InvalidTeam"
         /\ resp[p].uniqueCode = ""
         /\ loc[p].uniqueCode = ""
         /\ participants = pre[p].participants
         /\ registrations = pre[p].registrations

C11_Witness ==
  \E p \in SeqProcs :
    /\ pc[p] = "done"
    /\ req[p].op = "first"
    /\ req[p].fullName = Sara
    /\ req[p].teamId = 9
    /\ participants # <<>>
    /\ NameUnused(p)
    /\ resp[p].error = "InvalidTeam"

\* C12: a successful IssueCode appends exactly one participant and changes
\* nothing else; the new participant has the submitted fullName and teamId,
\* a null profileImage and the code the generator yields for the team's code
\* and the codes held before the call; the response carries that participant
\* joined with its team and a uniqueCode equal to the stored one.
C12_IssueCodeAddsOneParticipant ==
  \A p \in SeqProcs :
    (pc[p] = "done" /\ req[p].op = "first" /\ resp[p].status = 200) =>
      LET before == pre[p].participants
          new == participants[Len(participants)]
          team == CHOOSE t \in Range(Teams) : t.id = req[p].teamId
          held == CodesHeld(before)
      IN /\ Len(participants) = Len(before) + 1
         /\ SubSeq(participants, 1, Len(before)) = before
         /\ registrations = pre[p].registrations
         /\ new.fullName = req[p].fullName
         /\ new.teamId = req[p].teamId
         /\ new.profileImage = NullImage
         /\ new.id \notin {x.id : x \in Range(before)}
         /\ new.uniqueCode \notin held
         /\ \E k \in 1..(Cardinality(held) + 1) :
              /\ new.uniqueCode = team.code \o ZeroPadded3(k)
              /\ \A j \in 1..(k - 1) : team.code \o ZeroPadded3(j) \in held
         /\ resp[p].uniqueCode = new.uniqueCode
         /\ resp[p].participant =
              [id |-> new.id, fullName |-> new.fullName, teamId |-> new.teamId,
               uniqueCode |-> new.uniqueCode, profileImage |-> new.profileImage,
               team |-> team]

C12_Witness ==
  \E p \in SeqProcs :
    /\ pc[p] = "done"
    /\ req[p].op = "first"
    /\ resp[p].status = 200
    /\ Len(pre[p].participants) = 1
    /\ registrations # <<>>
    /\ resp[p].uniqueCode = "QU002"

\* what LookupByCode answers for a code in a given state of the store
LookupAnswer(parts, regs, code) ==
  LET holders == {i \in 1..Len(parts) : parts[i].uniqueCode = code}
      first == CHOOSE i \in holders : \A j \in holders : i <= j
  IN IF holders = {} THEN <<>>
     ELSE getRegistrationsByParticipantWithDetails(backend, parts, regs, parts[first].id)

C14_DeleteReportsExistence ==
  \A p \in SeqProcs :
    (pc[p] = "done" /\ req[p].op = "delete") =>
      LET existed == \E r \in Range(pre[p].registrations) : r.id = req[p].id IN
      /\ resp[p].status = 200 <=> existed
      /\ ~existed => /\ resp[p].status = 404
                     /\ resp[p].error = "NotFound"
                     /\ registrations = pre[p].registrations
                     /\ participants = pre[p].participants
      /\ \A r \in Range(registrations) : r.id # req[p].id

\* the second of two deletions of the same id: the id was handed out, its
\* row is gone, and the answer is not found
C14_Witness ==
  \E p \in SeqProcs :
    /\ pc[p] = "done"
    /\ req[p].op = "delete"
    /\ backend = "mem"
    /\ req[p].id < currentRegistrationId
    /\ pre[p].registrations # <<>>
    /\ resp[p].status = 404

\* C15: an IssueCode or RegisterPrograms request that ends in an error
\* response leaves participants and registrations exactly as they were
\* before the request: no row of a failed RegisterPrograms stays, and no
\* profileImage of it either.
C15_AllOrNothing ==
  \A p \in SeqProcs :
    (/\ pc[p] = "done"
     /\ req[p].op \in {"first", "second"}
     /\ resp[p].status # 200)
      => /\ participants = pre[p].participants
         /\ registrations = pre[p].registrations

\* every participant was created by an IssueCode that returned its code
IssuedCodeResolves ==
  \A i \in 1..Len(participants) :
    /\ Len(participants[i].uniqueCode) >= 5
    /\ \A j \in 1..Len(participants) :
         participants[j].uniqueCode = participants[i].uniqueCode => j = i

IssuedCodeKept ==
  \A i \in 1..Len(participants) :
    /\ i <= Len(participants')
    /\ participants'[i].id = participants[i].id
    /\ participants'[i].uniqueCode = participants[i].uniqueCode

IssuedCodeAccepted ==
  \A p \in SeqProcs :
    \A x \in Range(pre[p].participants) :
      (pc[p] = "done" /\ req[p].uniqueCode = x.uniqueCode) =>
        /\ req[p].op = "lookup" =>
             /\ resp[p].status = 200
             /\ resp[p].participant.id = x.id
             /\ resp[p].participant.fullName = x.fullName
             /\ resp[p].participant.uniqueCode = x.uniqueCode
        /\ (req[p].op = "second" /\ Len(req[p].programIds) >= 1) =>
             resp[p].error \notin {"InvalidCode", "ValidationError"}

\* C16: a code that IssueCode returned stays usable without a new step 1:
\* in every later state, whatever requests came in between, the same
\* participant still holds it and no other does, LookupByCode with it
\* succeeds and returns that participant, and RegisterPrograms with it and
\* a non-empty programIds list is rejected neither as InvalidCode nor as a
\* malformed code.
C16_IssuedCodeStaysUsable ==
  /\ []IssuedCodeResolves
  /\ [][IssuedCodeKept]_vars
  /\ []IssuedCodeAccepted

C16_Witness ==
  \E p \in SeqProcs :
    /\ pc[p] = "done"
    /\ req[p].op = "second"
    /\ req[p].uniqueCode = "BA001"
    /\ "BA001" \in CodesHeld(pre[p].participants)
    /\ pre[p].registrations # <<>>
    /\ currentRegistrationId > Len(pre[p].registrations) + 1
    /\ resp[p].status = 200

\* C17: a successful RegisterPrograms returns exactly the rows the
\* participant holds after the call, each joined with its program and with
\* the participant and team, and a newCount equal to the number of rows the
\* participant holds after the call minus the number held before it; every
\* requested program id is among the returned rows.
C17_ReturnedSetAndNewCount ==
  \A p \in SeqProcs :
    (pc[p] = "done" /\ req[p].op = "second" /\ resp[p].status = 200) =>
      LET owner == Presented(p)
          mine(r) == r.participantId = owner.id
          after == SelectSeq(registrations, mine)
          before == SelectSeq(pre[p].registrations, mine)
          returned == resp[p].registrations
      IN /\ Len(returned) = Len(after)
         /\ \A i \in 1..Len(returned) :
              /\ returned[i].id = after[i].id
              /\ returned[i].programId = after[i].programId
              /\ returned[i].registeredAt = after[i].registeredAt
              /\ returned[i].program \in Range(Programs)
              /\ returned[i].program.id = after[i].programId
              /\ returned[i].participant.id = owner.id
              /\ returned[i].participant.team \in Range(Teams)
              /\ returned[i].participant.team.id = owner.teamId
         /\ resp[p].newRegistrations = Len(after) - Len(before)
         /\ \A i \in 1..Len(req[p].programIds) :
              \E j \in 1..Len(returned) : returned[j].programId = req[p].programIds[i]

\* the arguments the handlers pass to the registry
NamesAsked == {body[1] : body \in Inputs.firsts}

ProgramIdsAsked == UNION {Range(body[2]) : body \in Inputs.seconds}

\* C18: MemStorage and DatabaseStorage are interchangeable: started from the
\* same seed data and given the same requests one after the other, both
\* give the same outcomes and data.  The handlers are shared, so this is
\* that in every state the requests lead to, every registry call a handler
\* makes is answered alike by the two storages.
C18_StoragesInterchangeable ==
  /\ \A name \in NamesAsked :
       getParticipantByName("mem", participants, name) =
         getParticipantByName("db", participants, name)
  /\ \A i \in 1..Len(Teams) :
       LET participant == [id |-> currentParticipantId, fullName |-> Sara,
                           teamId |-> Teams[i].id,
                           uniqueCode |-> generateUniqueCode(participants, Teams[i].code),
                           profileImage |-> NullImage]
       IN createParticipantRejected("mem", participants, participant) =
            createParticipantRejected("db", participants, participant)
  /\ \A x \in Range(participants) :
       /\ getRegistrationsByParticipantWithDetails("mem", participants, registrations, x.id) =
            getRegistrationsByParticipantWithDetails("db", participants, registrations, x.id)
       /\ \A programId \in ProgramIdsAsked :
            LET registration == [id |-> currentRegistrationId, participantId |-> x.id,
                                 programId |-> programId, registeredAt |-> clock]
            IN createRegistrationRejected("mem", registration) =
                 createRegistrationRejected("db", registration)

ParticipantKept ==
  \A i \in 1..Len(participants) :
    /\ i <= Len(participants')
    /\ participants'[i].id = participants[i].id
    /\ participants'[i].fullName = participants[i].fullName
    /\ participants'[i].teamId = participants[i].teamId
    /\ participants'[i].uniqueCode = participants[i].uniqueCode
    /\ participants'[i].profileImage # participants[i].profileImage =>
         \E p \in Procs :
           /\ req[p].op = "second"
           /\ ImageProvided(req[p].profileImage)
           /\ req[p].uniqueCode = participants[i].uniqueCode
           /\ participants'[i].profileImage = req[p].profileImage

\* C19: no operation removes a participant or changes its id, fullName,
\* teamId or uniqueCode; profileImage is the only field ever modified, only
\* by a RegisterPrograms that supplies an image, and only for the
\* participant that holds the presented code.
C19_ParticipantsImmutable == [][ParticipantKept]_vars

C19_Witness ==
  /\ Len(participants) = 2
  /\ participants[1].profileImage = NullImage
  /\ participants[2].profileImage = "/uploads/a"
  /\ registrations # <<>>

RegistrationKept ==
  \A r \in Range(registrations) :
    (\E kept \in Range(registrations') : kept.id = r.id) =>
      \A kept \in Range(registrations') :
        kept.id = r.id => /\ kept.participantId = r.participantId
                          /\ kept.programId = r.programId
                          /\ kept.registeredAt = r.registeredAt

\* C20: from its creation until its deletion a registration row keeps its
\* id, participantId, programId and registeredAt; submitting an
\* already-registered program again does not refresh registeredAt.
C20_RegistrationsImmutable == [][RegistrationKept]_vars

\* a re-submission answered after the clock has moved on: the first row
\* still carries the time of its creation
C20_Witness ==
  \E p \in SeqProcs :
    /\ pc[p] = "done"
    /\ req[p].op = "second"
    /\ resp[p].status = 200
    /\ resp[p].newRegistrations = 0
    /\ registrations # <<>>
    /\ registrations[1].registeredAt = 0
    /\ clock >= 2

\* C21: also when two RegisterPrograms requests for one participant with
\* overlapping programIds interleave, both reading the participant's rows
\* before either writes, the participant never holds more than one row for
\* a program.
C21_PairUniqueWhenInterleaved ==
  \A x \in Range(participants) :
    \A r \in Range(registrations) :
      RowsFor(registrations, x.id, r.programId) <= 1

\* C22: in every reachable state, those reached when two IssueCode requests
\* with one name interleave between the duplicate-name check and the
\* creation included, no two participants have fullNames that are equal
\* ignoring letter case.
C22_NamesUniqueIgnoringCase ==
  \A i, j \in 1..Len(participants) :
    toLowerCase(participants[i].fullName) = toLowerCase(participants[j].fullName) => i = j

\* C23: every registration row references an existing participant and an
\* existing program: RegisterPrograms never persists a row whose programId
\* names no program, so no row is ever orphaned.
C23_NoOrphanRows ==
  \A r \in Range(registrations) :
    /\ \E x \in Range(participants) : x.id = r.participantId
    /\ \E g \in Range(Programs) : g.id = r.programId

\* a row whose participant, that participant's team, and program all exist
Resolves(r) ==
  /\ \E x \in Range(participants) :
       x.id = r.participantId /\ \E t \in Range(Teams) : t.id = x.teamId
  /\ \E g \in Range(Programs) : g.id = r.programId

\* the rows of `rows` named by `joined`, in order, each carrying its own
\* participant, team and program
JoinsExactly(joined, rows) ==
  LET expected == SelectSeq(rows, Resolves) IN
  /\ Len(joined) = Len(expected)
  /\ \A i \in 1..Len(joined) :
       /\ joined[i].id = expected[i].id
       /\ joined[i].participantId = expected[i].participantId
       /\ joined[i].programId = expected[i].programId
       /\ joined[i].registeredAt = expected[i].registeredAt
       /\ joined[i].participant.id = expected[i].participantId
       /\ joined[i].participant.team.id = joined[i].participant.teamId
       /\ joined[i].participant.team.id >= 1
       /\ joined[i].program.id = expected[i].programId

\* C24: getRegistrationsWithDetails and
\* getRegistrationsByParticipantWithDetails return exactly the rows whose
\* participant, that participant's team, and program all resolve: a row
\* with an unresolvable reference is left out, and no returned row carries
\* a missing participant, team or program.
C24_DetailsOmitUnresolved ==
  /\ JoinsExactly(getRegistrationsWithDetails(backend, participants, registrations),
                  registrations)
  /\ \A x \in Range(participants) :
       LET mine(r) == r.participantId = x.id IN
       JoinsExactly(getRegistrationsByParticipantWithDetails(
                      backend, participants, registrations, x.id),
                    SelectSeq(registrations, mine))

\* a participant with one row that resolves and one that does not
C24_Witness ==
  \E x \in Range(participants) :
    /\ \E r \in Range(registrations) : r.participantId = x.id /\ Resolves(r)
    /\ \E r \in Range(registrations) : r.participantId = x.id /\ ~Resolves(r)

\* C25: in RegisterPrograms with a held code, a supplied image URL is
\* written to the participant's profileImage before any registration row is
\* created, also when every requested program is already registered
\* (newCount = 0); with no image (absent or the empty string) every
\* profileImage is left as it was.
C25_ImageFirst ==
  \A p \in SeqProcs :
    (/\ req[p].op = "second"
     /\ Len(req[p].uniqueCode) >= 5
     /\ Len(req[p].programIds) >= 1
     /\ Presented(p) # NoParticipant)
      => LET supplied == req[p].profileImage \notin {AbsentImage, ""}
             owner == CHOOSE x \in Range(participants) : x.id = Presented(p).id
             written == /\ owner.profileImage = req[p].profileImage
                        /\ \A i \in 1..Len(participants) :
                             participants[i].id # owner.id =>
                               participants[i] = pre[p].participants[i]
         IN /\ pc[p] = "s_image" => registrations = pre[p].registrations
            /\ (supplied /\ registrations # pre[p].registrations) => written
            /\ (supplied /\ pc[p] = "done") => written
            /\ ~supplied => participants = pre[p].participants

\* the image of a participant replaced by a request that created no row
C25_Witness ==
  \E p \in SeqProcs :
    /\ pc[p] = "done"
    /\ req[p].op = "second"
    /\ resp[p].status = 200
    /\ resp[p].newRegistrations = 0
    /\ req[p].profileImage = "/uploads/a"
    /\ Presented(p).profileImage = NullImage
    /\ \E x \in Range(participants) : x.id = Presented(p).id /\ x.profileImage = "/uploads/a"

\* the request breaks an input precondition
PreconditionViolated(p) ==
  \/ /\ req[p].op = "first"
     /\ \/ Len(req[p].fullName) < 2
        \/ Len(req[p].fullName) > 100
        \/ req[p].teamId < 1
  \/ /\ req[p].op = "second"
     /\ req[p].programIds = <<>>

\* C26: IssueCode with a fullName shorter than 2 or longer than 100
\* characters or a teamId below 1, and RegisterPrograms with an empty
\* programIds list, are answered with a validation error before any storage
\* operation runs: participants and registrations are unchanged, nothing was
\* read into the handler, and the server goes on to take the next request.
C26_ValidationRejects ==
  \A p \in SeqProcs :
    (pc[p] = "done" /\ PreconditionViolated(p)) =>
      /\ resp[p].status = 400
      /\ resp[p].error = "ValidationError"
      /\ resp[p].participant = NoParticipantWithTeam
      /\ resp[p].registrations = <<>>
      /\ loc[p] = NoLoc
      /\ participants = pre[p].participants
      /\ registrations = pre[p].registrations
      /\ ENABLED Finish(p)

C26_Witness ==
  \E p \in SeqProcs :
    /\ pc[p] = "done"
    /\ req[p].op = "first"
    /\ Len(req[p].fullName) > 100
    /\ participants # <<>>
    /\ registrations # <<>>
    /\ resp[p].error = "ValidationError"

\* how many of the first i participants belong to the team of the i-th
RankInTeam(i) ==
  Cardinality({j \in 1..i : participants[j].teamId = participants[i].teamId})

\* C27: with IssueCode requests run one at a time from an empty participant
\* set, the n-th participant created for a team holds the team's prefix
\* followed by n zero-padded to 3 digits, whatever was issued to other teams
\* in between; so within a team a later code has a strictly larger counter.
C27_MonotonePerTeam ==
  \A i \in 1..Len(participants) :
    \E t \in Range(Teams) :
      /\ t.id = participants[i].teamId
      /\ participants[i].uniqueCode = t.code \o ZeroPadded3(RankInTeam(i))
      /\ \A j \in 1..(i - 1) :
           participants[j].teamId = t.id => RankInTeam(j) < RankInTeam(i)

C27_Witness ==
  /\ Len(participants) = 2
  /\ participants[1].uniqueCode = "BA001"
  /\ participants[2].uniqueCode = "BA002"

\* the code the loop returned is one of its first Len(participants) + 1
\* candidates
GeneratorBounded ==
  \A p \in SeqProcs :
    pc[p] = "f_create" =>
      \E k \in 1..(Len(participants) + 1) :
        loc[p].uniqueCode = loc[p].teamCode \o ZeroPadded3(k)

Answered ==
  \A p \in SeqProcs : (pc[p] \notin {"idle", "done"}) ~> (pc[p] = "done")

\* C28: generateUniqueCode returns after at most (number of existing codes
\* + 1) candidate checks, and no IssueCode, LookupByCode, RegisterPrograms
\* or DeleteRegistration request loops or waits forever: every started
\* request eventually produces a response.
C28_EveryRequestAnswered == []GeneratorBounded /\ Answered

C28_Witness ==
  \E p \in SeqProcs :
    /\ pc[p] = "done"
    /\ req[p].op = "second"
    /\ req[p].programIds = <<2, 1>>
    /\ resp[p].status = 200
    /\ resp[p].newRegistrations = 2
    /\ Len(participants) = 2

\* C29: deletion re-opens a program: once a row has been deleted, a
\* RegisterPrograms naming a program P the participant holds no row for
\* creates exactly one new row for P, counted in newCount, with an id that
\* no row had before, the deleted row's included.
C29_DeletionReopensProgram ==
  \A p \in SeqProcs :
    (pc[p] = "done" /\ req[p].op = "second" /\ resp[p].status = 200) =>
      LET owner == Presented(p)
          firstNew == currentRegistrationId - resp[p].newRegistrations
          before == {r.id : r \in Range(pre[p].registrations)}
          gone == {id \in 1..(firstNew - 1) : id \notin before}
      IN \A P \in Range(req[p].programIds) :
           (gone # {} /\ RowsFor(pre[p].registrations, owner.id, P) = 0) =>
             /\ RowsFor(registrations, owner.id, P) = 1
             /\ resp[p].newRegistrations >= 1
             /\ \A r \in Range(registrations) :
                  (r.participantId = owner.id /\ r.programId = P) =>
                    /\ r.id \notin before
                    /\ r.id \notin gone
                    /\ r.id >= firstNew

====
